---- MODULE Spec2Model ----
(***************************************************************************)
(* Model of ndexutil/networkx.py: NetworkxLayoutWrapper and                *)
(* NetworkxLayoutCommand (credential resolution, staging directory,        *)
(* download, apply_layout, upload decision, HTTPError handler, cleanup).   *)
(*                                                                         *)
(* Python values are encoded as follows.                                   *)
(*   None / a value x            <<>> / <<x>>                              *)
(*   str                         a TLA+ string, or, where the characters   *)
(*                               matter (--center), a tagged sequence of   *)
(*                               one-character strings                     *)
(*   int, float                  [t |-> "int" | "float", v |-> Int]        *)
(*   dict (insertion ordered)    a sequence of entries with distinct keys  *)
(*   a path                      the sequence of its components            *)
(*   an exception                [cls, status, body]                       *)
(***************************************************************************)
EXTENDS Integers, Sequences, FiniteSets, TLC

VARIABLES args, conf, _altclient, _user, _pass, _server, client, _tmpdir, fs,
          pc, calls, layout_calls, log, exc, ret, outcome, errs, conf_reads,
          pos, cart_aspect, aspect_data, output_cx_file

vars == <<args, conf, _altclient, _user, _pass, _server, client, _tmpdir, fs,
          pc, calls, layout_calls, log, exc, ret, outcome, errs, conf_reads,
          pos, cart_aspect, aspect_data, output_cx_file>>

(***************************************************************************)
(* Bounds of the model.                                                    *)
(***************************************************************************)
\* nodes of a position map handed to convert_positions_to_cartesian_aspect
MaxNodes == 3
\* nodes of the position map a layout returns inside a run()
MaxRunNodes == 1
\* characters of a --center string
MaxCenterLen == 3

None == <<>>
Some(x) == <<x>>

(***************************************************************************)
(* Module constants.                                                       *)
(***************************************************************************)
SPRING_LAYOUT == "spring"
CIRCULAR_LAYOUT == "circular"
KAMADA_KAWAI_LAYOUT == "kamada_kawai"
PLANAR_LAYOUT == "planar"
SHELL_LAYOUT == "shell"
SPECTRAL_LAYOUT == "spectral"
SPIRAL_LAYOUT == "spiral"

Layouts == {SPRING_LAYOUT, CIRCULAR_LAYOUT, KAMADA_KAWAI_LAYOUT, PLANAR_LAYOUT,
            SHELL_LAYOUT, SPECTRAL_LAYOUT, SPIRAL_LAYOUT}

\* the aspect name run() passes to update_aspect_on_ndex
CARTESIAN_LAYOUT == "cartesianLayout"

\* the value of username, password and server that means "read it from config"
PLACEHOLDER == "-"

\* NDExUtilConfig.USER, PASSWORD, SERVER: the option names of a profile section
USER == "user"
PASSWORD == "password"
SERVER == "server"
ConfigKeys == {USER, PASSWORD, SERVER}

(***************************************************************************)
(* Exceptions.                                                             *)
(***************************************************************************)
Exc(cls, status, body) == [cls |-> cls, status |-> status, body |-> body]
NoExc == Exc("", 0, "")

\* requests.exceptions.HTTPError with its response: the status code and what
\* response.json() finds in the body
StatusCodes == {404, 500}
Bodies == {"json_message", "json_no_message", "not_json"}
HTTPErrors == {Exc("HTTPError", s, b) : s \in StatusCodes, b \in Bodies}

NDExUtilError == Exc("NDExUtilError", 0, "")
TypeError == Exc("TypeError", 0, "")
ValueError == Exc("ValueError", 0, "")
OSError == Exc("OSError", 0, "")
NoSectionError == Exc("NoSectionError", 0, "")
NoOptionError == Exc("NoOptionError", 0, "")
LayoutError == Exc("NetworkXError", 0, "")

(***************************************************************************)
(* Python strings, numbers and dicts.                                      *)
(***************************************************************************)
Str(s) == [t |-> "str", v |-> s]
PyInt(n) == [t |-> "int", v |-> n]
PyFloat(n) == [t |-> "float", v |-> n]
IsNumeric(x) == x.t \in {"int", "float"}

\* float(x) of a number: a float of the same value
float(x) == PyFloat(x.v)

\* s.split(sep) on a sequence of characters: the maximal pieces between
\* separators, empty pieces included, so that the result is never empty
RECURSIVE str_split(_, _)
str_split(s, sep) ==
    IF \E i \in 1..Len(s) : s[i] = sep
    THEN LET i == CHOOSE k \in 1..Len(s) :
                      s[k] = sep /\ \A j \in 1..(k - 1) : s[j] # sep
         IN  <<Str(SubSeq(s, 1, i - 1))>> \o str_split(SubSeq(s, i + 1, Len(s)), sep)
    ELSE <<Str(s)>>

\* d[n] of an insertion-ordered dict
dict_get(d, n) == d[CHOOSE i \in 1..Len(d) : d[i].key = n].val

\* the keys of a dict in iteration order
dict_keys(d) == [i \in 1..Len(d) |-> d[i].key]

\* os.path.join(d, name)
path_join(d, name) == Append(d, name)

IsPrefix(d, p) == Len(d) <= Len(p) /\ SubSeq(p, 1, Len(d)) = d

(***************************************************************************)
(* What a call gives back: a value, or an exception.                       *)
(***************************************************************************)
Returned(v) == [kind |-> "return", val |-> v, exc |-> NoExc]
Raised(e) == [kind |-> "raise", val |-> None, exc |-> e]
NotCalled == [kind |-> "none", val |-> None, exc |-> NoExc]

(***************************************************************************)
(* NetworkxLayoutWrapper                                                   *)
(***************************************************************************)
\* a variant with the two coordinates exchanged
convert_positions_swapped(networkx_pos) ==
    IF networkx_pos = None
    THEN Raised(NDExUtilError)
    ELSE LET d == networkx_pos[1]
             ns == dict_keys(d)
         IN  Returned([i \in 1..Len(ns) |->
                          [node |-> ns[i],
                           x |-> float(dict_get(d, ns[i])[2]),
                           y |-> float(dict_get(d, ns[i])[1])]])

convert_positions_to_cartesian_aspect(networkx_pos) ==
    IF networkx_pos = None
    THEN Raised(NDExUtilError)
    ELSE LET d == networkx_pos[1]
             ns == dict_keys(d)
         IN  Returned([i \in 1..Len(ns) |->
                          [node |-> ns[i],
                           x |-> float(dict_get(d, ns[i])[1]),
                           y |-> float(dict_get(d, ns[i])[2])]])

(***************************************************************************)
(* NetworkxLayoutCommand                                                   *)
(***************************************************************************)
\* con.get(section, option) on the ConfigParser that get_config() returns
con_get(store, section, option) ==
    IF section \notin DOMAIN store THEN Raised(NoSectionError)
    ELSE IF option \notin DOMAIN store[section] THEN Raised(NoOptionError)
    ELSE Returned(store[section][option])

\* a variant that returns early as soon as one field is a literal
_parse_config_any_literal(u, p, s, a, store) ==
    IF u # PLACEHOLDER \/ p # PLACEHOLDER \/ s # PLACEHOLDER
    THEN [user |-> u, pass |-> p, server |-> s, exc |-> NoExc,
          loaded |-> FALSE, reads |-> 0]
    ELSE LET g1 == con_get(store, a.profile, USER)
             g2 == IF g1.kind # "return" THEN g1 ELSE con_get(store, a.profile, PASSWORD)
             g3 == IF g2.kind # "return" THEN g2 ELSE con_get(store, a.profile, SERVER)
         IN  [user |-> IF g1.kind = "return" THEN g1.val ELSE u,
              pass |-> IF g2.kind = "return" THEN g2.val ELSE p,
              server |-> IF g3.kind = "return" THEN g3.val ELSE s,
              exc |-> g3.exc,
              loaded |-> TRUE,
              reads |-> 1 + (IF g1.kind = "return" THEN 1 ELSE 0)
                          + (IF g2.kind = "return" THEN 1 ELSE 0)]

\* _parse_config on the fields (u, p, s): the fields after it, the exception
\* that ended it (NoExc: it returned), whether the config store was loaded and
\* how many options were read from it
_parse_config(u, p, s, a, store) ==
    IF u # PLACEHOLDER /\ p # PLACEHOLDER /\ s # PLACEHOLDER
    THEN [user |-> u, pass |-> p, server |-> s, exc |-> NoExc,
          loaded |-> FALSE, reads |-> 0]
    ELSE LET g1 == IF u = PLACEHOLDER THEN con_get(store, a.profile, USER)
                   ELSE Returned(u)
             ok1 == g1.kind = "return"
             g2 == IF ~ok1 THEN g1
                   ELSE IF p = PLACEHOLDER THEN con_get(store, a.profile, PASSWORD)
                   ELSE Returned(p)
             ok2 == g2.kind = "return"
             g3 == IF ~ok2 THEN g2
                   ELSE IF s = PLACEHOLDER THEN con_get(store, a.profile, SERVER)
                   ELSE Returned(s)
             ok3 == g3.kind = "return"
             n1 == IF u = PLACEHOLDER THEN 1 ELSE 0
             n2 == IF ok1 /\ p = PLACEHOLDER THEN 1 ELSE 0
             n3 == IF ok2 /\ s = PLACEHOLDER THEN 1 ELSE 0
         IN  [user |-> IF ok1 THEN g1.val ELSE u,
              pass |-> IF ok2 THEN g2.val ELSE p,
              server |-> IF ok3 THEN g3.val ELSE s,
              exc |-> g3.exc,
              loaded |-> TRUE,
              reads |-> n1 + n2 + n3]

Ndex2(srv, usr, pwd) == [kind |-> "Ndex2", server |-> srv, user |-> usr, pass |-> pwd]
AltClient == [kind |-> "altclient", server |-> "", user |-> "", pass |-> ""]

_get_client(alt, srv, usr, pwd) ==
    IF alt # None THEN alt[1] ELSE Ndex2(srv, usr, pwd)

get_center_as_list(a) ==
    IF a.center = None THEN None ELSE Some(str_split(a.center[1], ","))

\* self(self._args.layout): the command object is called; the class defines
\* no __call__, so the call raises TypeError before NDExUtilError is built
call_self(a) == Raised(TypeError)

\* _run_layout_algorithm: the call made to the layout wrapper (None: no call)
\* and what the method gives back; wrapper_result is what spring_layout
\* gives back when it is called
_run_layout_algorithm(a, wrapper_result) ==
    LET center_val == get_center_as_list(a)
    IN  IF a.layout = SPRING_LAYOUT
        THEN [call |-> Some([op |-> "spring_layout", k |-> a.spring_k,
                             iterations |-> a.spring_iterations,
                             center |-> center_val, scale |-> a.scale]),
              result |-> wrapper_result]
        ELSE [call |-> None, result |-> call_self(a)]

\* a variant that behaves as os.rmdir, which removes only an empty directory
rmdir_if_empty(f, d) ==
    IF \E p \in f : p # d /\ IsPrefix(d, p) THEN f ELSE f \ {d}

\* shutil.rmtree(d): d and everything below it leave the file system
rmtree(f, d) == {p \in f : ~IsPrefix(d, p)}

\* a variant that handles every exception
CatchesAll(e) == TRUE

\* the except clause of run(): which exceptions it handles
Catches(e) == e.cls = "HTTPError"

\* a variant that looks at updatefullnetwork before skipupload
upload_choice_full_first(a) ==
    IF a.updatefullnetwork = TRUE THEN "update_network_on_ndex"
    ELSE IF a.skipupload = TRUE THEN "skip"
    ELSE "update_aspect_on_ndex"

\* a variant with the two uploads exchanged
upload_choice_exchanged(a) ==
    IF a.skipupload = TRUE THEN "skip"
    ELSE IF a.updatefullnetwork = TRUE THEN "update_aspect_on_ndex"
    ELSE "update_network_on_ndex"

\* the upload decision of run()
upload_choice(a) ==
    IF a.skipupload = TRUE THEN "skip"
    ELSE IF a.updatefullnetwork = TRUE THEN "update_network_on_ndex"
    ELSE "update_aspect_on_ndex"

\* he.response.json()
response_json(he) ==
    IF he.body = "not_json" THEN Raised(ValueError)
    ELSE IF he.body = "json_message" THEN Returned([message |-> "not found"])
    ELSE Returned([errorCode |-> "NDEx_Exception"])

LogLine(text, arg) == [level |-> "fatal", text |-> text, arg |-> arg]

\* the body of the except clause: the log lines it writes and how it ends
handle_http_error(he) ==
    LET first == LogLine("Received error code", ToString(he.status))
        js == response_json(he)
    IN  IF js.kind = "raise"
        THEN [lines |-> <<first>>, result |-> js]
        ELSE IF "message" \in DOMAIN js.val
        THEN [lines |-> <<first, LogLine("Message from NDEx server", js.val["message"])>>,
              result |-> Returned(1)]
        ELSE [lines |-> <<first>>, result |-> Returned(1)]

(***************************************************************************)
(* The inputs: command lines, config stores, position maps, what the       *)
(* collaborators (NDEx client, ndex2 loader, layout wrapper, file system)  *)
(* give back.                                                              *)
(***************************************************************************)
PROFILE == "ndexprofile"

\* the value a config store holds for an option
ConfigValue(k) ==
    CASE k = USER -> "cfg_user" [] k = PASSWORD -> "cfg_pass" [] k = SERVER -> "cfg_server"

\* config stores: without the profile section, or with it and any subset of
\* the three options
ConfStores ==
    {[sec \in {"other"} |-> [k \in ConfigKeys |-> ConfigValue(k)]]} \cup
    {[sec \in {PROFILE} |-> [k \in K |-> ConfigValue(k)]] : K \in SUBSET ConfigKeys}

SeqsUpTo(S, n) == UNION {[1..m -> S] : m \in 0..n}

CenterChars == {"1", "2", ","}
Centers == {None} \cup {Some(c) : c \in SeqsUpTo(CenterChars, MaxCenterLen)}

\* positions as a layout of dimension 2 returns them
CoordValues == {PyInt(0), PyFloat(1)}
Positions == [1..2 -> CoordValues]
PosMaps(n) ==
    {d \in SeqsUpTo([key : 1..n, val : Positions], n) :
        \A i, j \in 1..Len(d) : d[i].key = d[j].key => i = j}

\* what the layout wrapper's spring_layout gives back
WrapperResults(n) ==
    {Returned(Some(d)) : d \in PosMaps(n)} \cup {Returned(None), Raised(LayoutError)}

DEFAULT_SCALE == PyFloat(300)
DEFAULT_SPRING_ITERATIONS == PyInt(50)

ArgsOf(layouts, users, passes, servers, centers, flags, outputs) ==
    [layout : layouts, username : users, password : passes, server : servers,
     uuid : {"uuid-1"}, scale : {DEFAULT_SCALE}, center : centers,
     spring_iterations : {DEFAULT_SPRING_ITERATIONS}, spring_k : {None},
     tmpdir : {None}, skipupload : flags, outputcx : outputs,
     updatefullnetwork : flags, conf : {None}, profile : {PROFILE}]

\* the directory tempfile.mkdtemp creates
StageDir == <<"tmp_staging">>
OutputCx == <<"out.cx">>

Call(op, networkid, cxfile, aspect_name, data) ==
    [op |-> op, networkid |-> networkid, cxfile |-> cxfile,
     aspect_name |-> aspect_name, aspect_data |-> data]

(***************************************************************************)
(* __init__: the state after construction, at position pc0.                *)
(***************************************************************************)
Constructed(pc0) ==
    /\ _user = args.username
    /\ _pass = args.password
    /\ _server = args.server
    /\ _tmpdir = None
    /\ client = None
    /\ fs = {}
    /\ pc = pc0
    /\ calls = <<>>
    /\ layout_calls = <<>>
    /\ log = <<>>
    /\ exc = None
    /\ ret = None
    /\ outcome = NotCalled
    /\ errs = <<>>
    /\ conf_reads = [loaded |-> FALSE, reads |-> 0]
    /\ cart_aspect = None
    /\ aspect_data = None
    /\ output_cx_file = None

Init ==
    /\ args \in ArgsOf(Layouts, {PLACEHOLDER, "alice"}, {PLACEHOLDER, "secret"},
                       {PLACEHOLDER, "public.ndexbio.org"},
                       {None, Some(<<"1", ",", "2">>)}, BOOLEAN,
                       {None, Some(OutputCx)})
    /\ conf \in ConfStores
    /\ _altclient \in {None, Some(AltClient)}
    /\ pos = None
    /\ Constructed("parse_config")

(***************************************************************************)
(* run(), step by step.                                                    *)
(***************************************************************************)
\* an exception leaves run() before the try statement is entered
RaiseOutsideTry(step, e) ==
    /\ errs' = Append(errs, [at |-> step, exc |-> e])
    /\ outcome' = Raised(e)
    /\ pc' = "done"

\* an exception is raised in the body of the try statement
RaiseInTry(step, e) ==
    /\ errs' = Append(errs, [at |-> step, exc |-> e])
    /\ exc' = Some(e)
    /\ pc' = IF Catches(e) THEN "except" ELSE "finally"

\* self._parse_config()
ParseConfig ==
    /\ pc = "parse_config"
    /\ LET r == _parse_config(_user, _pass, _server, args, conf)
       IN  /\ _user' = r.user
           /\ _pass' = r.pass
           /\ _server' = r.server
           /\ conf_reads' = [loaded |-> r.loaded, reads |-> r.reads]
           /\ IF r.exc = NoExc
              THEN pc' = "get_client" /\ UNCHANGED <<errs, outcome>>
              ELSE RaiseOutsideTry("parse_config", r.exc)
    /\ UNCHANGED <<args, conf, _altclient, client, _tmpdir, fs, calls,
                   layout_calls, log, exc, ret, pos, cart_aspect, aspect_data,
                   output_cx_file>>

\* client = self._get_client()
GetClient ==
    /\ pc = "get_client"
    /\ client' = Some(_get_client(_altclient, _server, _user, _pass))
    /\ pc' = "mkdtemp"
    /\ UNCHANGED <<args, conf, _altclient, _user, _pass, _server, _tmpdir, fs,
                   calls, layout_calls, log, exc, ret, outcome, errs,
                   conf_reads, pos, cart_aspect, aspect_data, output_cx_file>>

\* self._tmpdir = tempfile.mkdtemp(...): the directory is created, or the
\* file system refuses
Mkdtemp ==
    /\ pc = "mkdtemp"
    /\ \/ /\ _tmpdir' = Some(StageDir)
          /\ fs' = fs \cup {StageDir}
          /\ pc' = "download"
          /\ UNCHANGED <<errs, outcome>>
       \/ /\ RaiseOutsideTry("mkdtemp", OSError)
          /\ UNCHANGED <<_tmpdir, fs>>
    /\ UNCHANGED <<args, conf, _altclient, _user, _pass, _server, client,
                   calls, layout_calls, log, exc, ret, conf_reads, pos,
                   cart_aspect, aspect_data, output_cx_file>>

\* a variant of Download that notes a failed download and goes on
Download_ignoring_errors ==
    /\ pc = "download"
    /\ LET input_cx_file == path_join(_tmpdir[1], args.uuid \o ".cx")
       IN  /\ calls' = Append(calls, Call("download_network_from_ndex", args.uuid,
                                          Some(input_cx_file), "", None))
           /\ \/ /\ fs' = fs \cup {input_cx_file}
                 /\ UNCHANGED errs
              \/ /\ \E e \in HTTPErrors \cup {OSError} :
                        errs' = Append(errs, [at |-> "download", exc |-> e])
                 /\ UNCHANGED fs
    /\ pc' = "load"
    /\ UNCHANGED <<args, conf, _altclient, _user, _pass, _server, client,
                   _tmpdir, layout_calls, log, exc, ret, outcome, conf_reads,
                   pos, cart_aspect, aspect_data, output_cx_file>>

\* download_network_from_ndex(client, networkid, destfile): the file is
\* written, or the service answers with an error, or the call fails otherwise
Download ==
    /\ pc = "download"
    /\ LET input_cx_file == path_join(_tmpdir[1], args.uuid \o ".cx")
       IN  /\ calls' = Append(calls, Call("download_network_from_ndex", args.uuid,
                                          Some(input_cx_file), "", None))
           /\ \/ /\ fs' = fs \cup {input_cx_file}
                 /\ pc' = "load"
                 /\ UNCHANGED <<errs, exc>>
              \/ /\ \E e \in HTTPErrors \cup {OSError} : RaiseInTry("download", e)
                 /\ UNCHANGED fs
    /\ UNCHANGED <<args, conf, _altclient, _user, _pass, _server, client,
                   _tmpdir, layout_calls, log, ret, outcome, conf_reads, pos,
                   cart_aspect, aspect_data, output_cx_file>>

\* apply_layout: ndex2.create_nice_cx_from_file(cxfile) and get_graph(net)
LoadNetwork ==
    /\ pc = "load"
    /\ \/ pc' = "layout" /\ UNCHANGED <<errs, exc>>
       \/ RaiseInTry("load", OSError)
    /\ UNCHANGED <<args, conf, _altclient, _user, _pass, _server, client,
                   _tmpdir, fs, calls, layout_calls, log, ret, outcome,
                   conf_reads, pos, cart_aspect, aspect_data, output_cx_file>>

\* what _run_layout_algorithm does to the state, given the wrapper's answer
DoRunLayout(w) ==
    LET r == _run_layout_algorithm(args, w)
    IN  /\ layout_calls' = layout_calls \o r.call
        /\ IF r.result.kind = "return"
           THEN /\ pos' = r.result.val
                /\ pc' = "convert"
                /\ UNCHANGED <<errs, exc>>
           ELSE /\ RaiseInTry("layout", r.result.exc)
                /\ UNCHANGED pos

\* apply_layout: pos = self._run_layout_algorithm(netx_graph)
RunLayout ==
    /\ pc = "layout"
    /\ \E w \in WrapperResults(MaxRunNodes) : DoRunLayout(w)
    /\ UNCHANGED <<args, conf, _altclient, _user, _pass, _server, client,
                   _tmpdir, fs, calls, log, ret, outcome, conf_reads,
                   cart_aspect, aspect_data, output_cx_file>>

\* apply_layout: cart_aspect = convert_positions_to_cartesian_aspect(pos)
Convert ==
    /\ pc = "convert"
    /\ LET r == convert_positions_to_cartesian_aspect(pos)
       IN  IF r.kind = "return"
           THEN /\ cart_aspect' = Some(r.val)
                /\ pc' = "write_cx"
                /\ UNCHANGED <<errs, exc>>
           ELSE /\ RaiseInTry("convert", r.exc)
                /\ UNCHANGED cart_aspect
    /\ UNCHANGED <<args, conf, _altclient, _user, _pass, _server, client,
                   _tmpdir, fs, calls, layout_calls, log, ret, outcome,
                   conf_reads, pos, aspect_data, output_cx_file>>

\* apply_layout: the output file is chosen and written; run() receives
\* (cart_aspect, output_cx_file)
WriteCx ==
    /\ pc = "write_cx"
    /\ LET out == IF args.outputcx # None THEN args.outputcx[1]
                  ELSE path_join(_tmpdir[1], "output.cx")
       IN  \/ /\ fs' = fs \cup {out}
              /\ aspect_data' = cart_aspect
              /\ output_cx_file' = Some(out)
              /\ pc' = "upload"
              /\ UNCHANGED <<errs, exc>>
           \/ /\ RaiseInTry("write_cx", OSError)
              /\ UNCHANGED <<fs, aspect_data, output_cx_file>>
    /\ UNCHANGED <<args, conf, _altclient, _user, _pass, _server, client,
                   _tmpdir, calls, layout_calls, log, ret, outcome,
                   conf_reads, pos, cart_aspect>>

\* the call an upload choice makes
upload_call(choice) ==
    IF choice = "update_network_on_ndex"
    THEN Call("update_network_on_ndex", args.uuid, output_cx_file, "", None)
    ELSE Call("update_aspect_on_ndex", args.uuid, None, CARTESIAN_LAYOUT, aspect_data)

\* the upload decision, the upload and return 0
Upload ==
    /\ pc = "upload"
    /\ LET choice == upload_choice(args)
       IN  IF choice = "skip"
           THEN /\ ret' = Some(0)
                /\ pc' = "finally"
                /\ UNCHANGED <<calls, errs, exc>>
           ELSE /\ calls' = Append(calls, upload_call(choice))
                /\ \/ /\ ret' = Some(0)
                      /\ pc' = "finally"
                      /\ UNCHANGED <<errs, exc>>
                   \/ /\ \E e \in HTTPErrors \cup {OSError} : RaiseInTry("upload", e)
                      /\ UNCHANGED ret
    /\ UNCHANGED <<args, conf, _altclient, _user, _pass, _server, client,
                   _tmpdir, fs, layout_calls, log, outcome, conf_reads, pos,
                   cart_aspect, aspect_data, output_cx_file>>

\* except HTTPError as he: ...
Except ==
    /\ pc = "except"
    /\ LET h == handle_http_error(exc[1])
       IN  /\ log' = log \o h.lines
           /\ IF h.result.kind = "return"
              THEN /\ ret' = Some(h.result.val)
                   /\ exc' = None
                   /\ UNCHANGED errs
              ELSE /\ errs' = Append(errs, [at |-> "except", exc |-> h.result.exc])
                   /\ exc' = Some(h.result.exc)
                   /\ UNCHANGED ret
    /\ pc' = "finally"
    /\ UNCHANGED <<args, conf, _altclient, _user, _pass, _server, client,
                   _tmpdir, fs, calls, layout_calls, outcome, conf_reads, pos,
                   cart_aspect, aspect_data, output_cx_file>>

\* finally: shutil.rmtree(self._tmpdir); then run() returns or the pending
\* exception goes on to the caller
Finally ==
    /\ pc = "finally"
    /\ fs' = rmtree(fs, _tmpdir[1])
    /\ outcome' = IF exc # None THEN Raised(exc[1]) ELSE Returned(ret[1])
    /\ pc' = "done"
    /\ UNCHANGED <<args, conf, _altclient, _user, _pass, _server, client,
                   _tmpdir, calls, layout_calls, log, exc, ret, errs,
                   conf_reads, pos, cart_aspect, aspect_data, output_cx_file>>

Next ==
    \/ ParseConfig
    \/ GetClient
    \/ Mkdtemp
    \/ Download
    \/ LoadNetwork
    \/ RunLayout
    \/ Convert
    \/ WriteCx
    \/ Upload
    \/ Except
    \/ Finally

Spec == Init /\ [][Next]_vars

(***************************************************************************)
(* The methods called on their own, each from a state after construction.  *)
(***************************************************************************)
UnitUnchanged ==
    UNCHANGED <<args, conf, _altclient, client, _tmpdir, fs, calls, log, exc,
                ret, cart_aspect, aspect_data, output_cx_file>>

\* cmd._parse_config()
Call_parse_config ==
    /\ pc = "call_parse_config"
    /\ LET r == _parse_config(_user, _pass, _server, args, conf)
       IN  /\ _user' = r.user
           /\ _pass' = r.pass
           /\ _server' = r.server
           /\ conf_reads' = [loaded |-> r.loaded, reads |-> r.reads]
           /\ IF r.exc = NoExc
              THEN outcome' = Returned(None) /\ pc' = "done" /\ UNCHANGED errs
              ELSE RaiseOutsideTry("parse_config", r.exc)
    /\ UNCHANGED <<layout_calls, pos>>
    /\ UnitUnchanged

InitConfig ==
    /\ args \in ArgsOf({SPRING_LAYOUT}, {PLACEHOLDER, "alice", ConfigValue(USER)},
                       {PLACEHOLDER, "secret", ConfigValue(PASSWORD)},
                       {PLACEHOLDER, "public.ndexbio.org", ConfigValue(SERVER)},
                       {None}, {FALSE}, {None})
    /\ conf \in ConfStores
    /\ _altclient = None
    /\ pos = None
    /\ Constructed("call_parse_config")

SpecConfig == InitConfig /\ [][Call_parse_config]_vars

\* cmd._run_layout_algorithm(netx_graph)
Call_run_layout_algorithm ==
    /\ pc = "call_run_layout_algorithm"
    /\ \E w \in WrapperResults(MaxRunNodes) :
          LET r == _run_layout_algorithm(args, w)
          IN  /\ layout_calls' = layout_calls \o r.call
              /\ outcome' = r.result
              /\ errs' = IF r.result.kind = "raise"
                         THEN Append(errs, [at |-> "layout", exc |-> r.result.exc])
                         ELSE errs
    /\ pc' = "done"
    /\ UNCHANGED <<_user, _pass, _server, conf_reads, pos>>
    /\ UnitUnchanged

InitLayout ==
    /\ args \in ArgsOf(Layouts, {"alice"}, {"secret"}, {"public.ndexbio.org"},
                       Centers, {FALSE}, {None})
    /\ conf \in {c \in ConfStores : PROFILE \in DOMAIN c /\ DOMAIN c[PROFILE] = ConfigKeys}
    /\ _altclient = None
    /\ pos = None
    /\ Constructed("call_run_layout_algorithm")

SpecLayout == InitLayout /\ [][Call_run_layout_algorithm]_vars

\* wrapper.convert_positions_to_cartesian_aspect(pos)
Call_convert ==
    /\ pc = "call_convert"
    /\ LET r == convert_positions_to_cartesian_aspect(pos)
       IN  /\ outcome' = r
           /\ errs' = IF r.kind = "raise"
                      THEN Append(errs, [at |-> "convert", exc |-> r.exc])
                      ELSE errs
    /\ pc' = "done"
    /\ UNCHANGED <<_user, _pass, _server, conf_reads, pos, layout_calls>>
    /\ UnitUnchanged

InitConvert ==
    /\ args \in ArgsOf({SPRING_LAYOUT}, {"alice"}, {"secret"}, {"public.ndexbio.org"},
                       {None}, {FALSE}, {None})
    /\ conf \in {c \in ConfStores : PROFILE \in DOMAIN c /\ DOMAIN c[PROFILE] = ConfigKeys}
    /\ _altclient = None
    /\ pos \in {None} \cup {Some(d) : d \in PosMaps(MaxNodes)}
    /\ Constructed("call_convert")

SpecConvert == InitConvert /\ [][Call_convert]_vars

(***************************************************************************)
(* Properties.                                                             *)
(***************************************************************************)
IsWrite(c) == c.op \in {"update_network_on_ndex", "update_aspect_on_ndex"}
Writes == SelectSeq(calls, IsWrite)
ErrAt(steps) == {i \in 1..Len(errs) : errs[i].at \in steps}
\* download and apply_layout of this run have both completed without error
LayoutApplied == output_cx_file # None

\* C1: when run() has created the staging directory and control is back with
\* the caller, the directory (and everything below it) is gone from local
\* storage, whatever the exit path
C1_StagingDirRemoved ==
    (pc = "done" /\ _tmpdir # None) =>
        \A p \in fs : ~IsPrefix(_tmpdir[1], p)

\* the exit path through an exception raised inside the HTTPError handler
C1_Witness ==
    /\ pc = "done"
    /\ _tmpdir # None
    /\ ErrAt({"except"}) # {}
    /\ outcome.kind = "raise"

\* C2: with skipupload set, a run whose download and apply_layout succeeded
\* makes no write to the service and returns 0, whatever updatefullnetwork is
C2_SkipUploadNoWrite ==
    /\ args.skipupload => Writes = <<>>
    /\ (pc = "done" /\ args.skipupload /\ LayoutApplied) =>
           (outcome.kind = "return" /\ outcome.val = 0)

C2_Witness ==
    /\ pc = "done"
    /\ args.skipupload
    /\ args.updatefullnetwork
    /\ LayoutApplied
    /\ outcome.kind = "return"

C3_ExpectedOutputFile ==
    IF args.outputcx # None THEN args.outputcx
    ELSE Some(<<_tmpdir[1][1], "output.cx">>)

\* C3: a run makes at most one write; without skipupload a run that reaches
\* the upload makes exactly one, chosen by updatefullnetwork alone:
\* update_network_on_ndex(uuid, output file of apply_layout) if set,
\* update_aspect_on_ndex(uuid, 'cartesianLayout', aspect of apply_layout) if
\* not; a run whose write succeeds returns 0
C3_OneWriteChosenByFlag ==
    /\ Len(Writes) <= 1
    /\ \A i \in 1..Len(Writes) :
          /\ ~args.skipupload
          /\ LayoutApplied
          /\ Writes[i].networkid = args.uuid
          /\ IF args.updatefullnetwork
             THEN /\ Writes[i].op = "update_network_on_ndex"
                  /\ Writes[i].cxfile = C3_ExpectedOutputFile
                  /\ Writes[i].cxfile[1] \in fs \/ pc = "done"
             ELSE /\ Writes[i].op = "update_aspect_on_ndex"
                  /\ Writes[i].aspect_name = "cartesianLayout"
                  /\ Writes[i].aspect_data = cart_aspect
                  /\ cart_aspect # None
    /\ (pc \in {"except", "finally", "done"} /\ LayoutApplied /\ ~args.skipupload)
           => Len(Writes) = 1
    /\ (pc = "done" /\ Len(Writes) = 1 /\ ErrAt({"upload"}) = {})
           => (outcome.kind = "return" /\ outcome.val = 0)

C3_Witness ==
    /\ pc = "done"
    /\ args.updatefullnetwork
    /\ Len(Writes) = 1
    /\ Writes[1].op = "update_network_on_ndex"
    /\ outcome.kind = "return"
    /\ outcome.val = 0

\* C4: every HTTPError raised by the download or by an upload is handled in
\* run(): the status code is logged, the server's message is logged when the
\* body has one, and run() returns 1, also when the body has no message or is
\* not JSON
C4_HTTPErrorReturnsOne ==
    \A i \in ErrAt({"download", "upload"}) :
        (pc = "done" /\ errs[i].exc.cls = "HTTPError") =>
            /\ outcome.kind = "return"
            /\ outcome.val = 1
            /\ \E k \in 1..Len(log) :
                  log[k].text = "Received error code"
                  /\ log[k].arg = ToString(errs[i].exc.status)
            /\ errs[i].exc.body = "json_message" =>
                  \E k \in 1..Len(log) : log[k].text = "Message from NDEx server"

\* C5: for every layout name other than 'spring', _run_layout_algorithm
\* fails with NDExUtilError, calls no layout algorithm and returns no
\* position map
C5_UnsupportedLayoutError ==
    (pc = "done" /\ args.layout # SPRING_LAYOUT) =>
        /\ outcome.kind = "raise"
        /\ outcome.exc = NDExUtilError
        /\ layout_calls = <<>>

C6_Resolved(field, arg, option) ==
    field = IF arg = PLACEHOLDER THEN conf[args.profile][option] ELSE arg

\* C6: after _parse_config has returned, each of user, password and server
\* is the profile section's value if the argument was the placeholder and the
\* literal argument otherwise, each field on its own; with no placeholder the
\* config store is not read (and the method cannot fail)
C6_CredentialResolution ==
    pc = "done" =>
        /\ outcome.kind = "return" =>
              /\ C6_Resolved(_user, args.username, USER)
              /\ C6_Resolved(_pass, args.password, PASSWORD)
              /\ C6_Resolved(_server, args.server, SERVER)
        /\ (PLACEHOLDER \notin {args.username, args.password, args.server}) =>
              /\ outcome.kind = "return"
              /\ conf_reads = [loaded |-> FALSE, reads |-> 0]

\* one field from the config, the other two literal
C6_Witness ==
    /\ pc = "done"
    /\ outcome.kind = "return"
    /\ args.username # PLACEHOLDER
    /\ args.password = PLACEHOLDER
    /\ args.server # PLACEHOLDER
    /\ _pass = ConfigValue(PASSWORD)
    /\ conf_reads.reads = 1

\* C7: for a position map, convert_positions_to_cartesian_aspect returns one
\* record {node, x, y} per entry, in the map's order, the node ids distinct
\* and exactly the map's keys, x and y the floats of components 0 and 1 of
\* the node's position; for None it raises NDExUtilError and returns nothing
C7_AspectFromPositions ==
    pc = "done" =>
        IF pos = None
        THEN outcome.kind = "raise" /\ outcome.exc = NDExUtilError /\ outcome.val = None
        ELSE /\ outcome.kind = "return"
             /\ LET d == pos[1]
                    r == outcome.val
                IN  /\ Len(r) = Len(d)
                    /\ \A i \in 1..Len(d) :
                          /\ DOMAIN r[i] = {"node", "x", "y"}
                          /\ r[i].node = d[i].key
                          /\ r[i].x.t = "float" /\ r[i].x.v = d[i].val[1].v
                          /\ r[i].y.t = "float" /\ r[i].y.v = d[i].val[2].v
                    /\ \A i, j \in 1..Len(r) : r[i].node = r[j].node => i = j
                    /\ {r[i].node : i \in 1..Len(r)} = {d[i].key : i \in 1..Len(d)}

\* two entries, keys not in ascending order, an int coordinate, x # y
C7_Witness ==
    /\ pc = "done"
    /\ pos # None
    /\ Len(pos[1]) = 2
    /\ pos[1][1].key > pos[1][2].key
    /\ pos[1][1].val[1] = PyInt(0)
    /\ pos[1][1].val[2] = PyFloat(1)
    /\ outcome.kind = "return"

\* C8: the center handed to the layout algorithm is None when --center is
\* absent and otherwise the --center string parsed into exactly two numbers
C8_CenterTwoNumbers ==
    \A i \in 1..Len(layout_calls) :
        IF args.center = None
        THEN layout_calls[i].center = None
        ELSE /\ layout_calls[i].center # None
             /\ Len(layout_calls[i].center[1]) = 2
             /\ \A k \in 1..Len(layout_calls[i].center[1]) :
                   IsNumeric(layout_calls[i].center[1][k])

\* C9: run() recovers only from HTTPError: a run whose first error is of any
\* other class ends with that error going to the caller, a run that returns 1
\* had an HTTPError, a run that returns 0 had no error
C9_OnlyHTTPErrorRecovered ==
    pc = "done" =>
        /\ (errs # <<>> /\ errs[1].exc.cls # "HTTPError") =>
              (outcome.kind = "raise" /\ outcome.exc = errs[1].exc)
        /\ (outcome.kind = "return" /\ outcome.val = 1) =>
              (errs # <<>> /\ errs[1].exc.cls = "HTTPError")
        /\ (outcome.kind = "return" /\ outcome.val = 0) => errs = <<>>
        /\ outcome.kind = "return" => outcome.val \in {0, 1}

\* the missing-input error of convert_positions_to_cartesian_aspect leaves run()
C9_Witness ==
    /\ pc = "done"
    /\ errs # <<>>
    /\ errs[1].exc = NDExUtilError
    /\ outcome.kind = "raise"
    /\ _tmpdir # None

C10_Rank(p) ==
    CASE p = "parse_config" -> 1 [] p = "get_client" -> 2 [] p = "mkdtemp" -> 3
      [] p = "download" -> 4 [] p = "load" -> 5 [] p = "layout" -> 6
      [] p = "convert" -> 7 [] p = "write_cx" -> 8 [] p = "upload" -> 9
      [] p = "except" -> 10 [] p = "finally" -> 11 [] p = "done" -> 12

C10_WriteAfterLayout ==
    /\ Writes # <<>> =>
          /\ LayoutApplied
          /\ calls[1].op = "download_network_from_ndex"
          /\ ~IsWrite(calls[1])
          /\ ErrAt({"download", "load", "layout", "convert", "write_cx"}) = {}
          /\ client # None /\ _tmpdir # None
    /\ ErrAt({"parse_config", "mkdtemp", "download", "load", "layout", "convert",
              "write_cx"}) # {} => Writes = <<>>

C10_Step ==
    /\ C10_Rank(pc') > C10_Rank(pc)
    /\ C10_Rank(pc') <= 9 => C10_Rank(pc') = C10_Rank(pc) + 1
    /\ calls' # calls =>
          /\ calls' = Append(calls, calls'[Len(calls')])
          /\ pc = IF IsWrite(calls'[Len(calls')]) THEN "upload" ELSE "download"

\* C10: the steps of run() are taken in the fixed order, never backwards, and
\* a write to the service is made only from the upload step, after the
\* download and apply_layout of the run completed without error; a run whose
\* download or layout failed has made no write
C10_PipelineOrder == []C10_WriteAfterLayout /\ [][C10_Step]_vars

\* a write made after download and apply_layout
C10_Witness ==
    /\ pc = "done"
    /\ Len(calls) = 2
    /\ IsWrite(calls[2])
    /\ layout_calls # <<>>

====
